---- MODULE Spec2Model ----
(***************************************************************************)
(* The `cond!` macro of src/src/lib.rs.                                    *)
(*                                                                         *)
(* The macro has one rule.  Its matcher                                    *)
(*   $($condition:expr => $value:expr),* $(, _ => $default:expr)? $(,)?    *)
(* is run by the macro_rules matcher over the invocation's token trees,     *)
(* and its transcriber produces                                             *)
(*   match () { $(() if $condition => $value,)* () => ($($default)?), }     *)
(* which is then evaluated where the macro was invoked.                     *)
(*                                                                         *)
(* The model follows one invocation: the tokens are read one at a time      *)
(* (ReadToken), the matcher accepts or rejects, the accepted invocation is  *)
(* transcribed, an environment fixes what each expression evaluates to      *)
(* (Invoke), and the match expression is evaluated arm by arm (EvalGuard,   *)
(* EvalBody, EvalFallback).                                                 *)
(*                                                                         *)
(* Token trees: "id" is a path (an identifier); "{}" is a brace-delimited   *)
(* group that is a block and also a field list (`{}`, `{ x }`), so that     *)
(* after a path it makes a struct literal; "{;}" is a brace-delimited group *)
(* that holds statements (`{ f(); }`), a block and no field list; ">" is    *)
(* the comparison operator `>` (as `>=`, `==`, `<=`, it cannot begin an     *)
(* expression; `<`, which can, is not among the tokens, and between two     *)
(* operands behaves as `>`); "=>" "," "_" are themselves; "Eof" is the end  *)
(* of the invocation.  An expression is a primary (`id`, `{}`, `{;}`,       *)
(* `id {}`) or `primary > primary`; after `>` the expression parser also    *)
(* takes `_`, which no later stage accepts there.                           *)
(***************************************************************************)
EXTENDS Integers, Sequences, FiniteSets, TLC

\* The longest invocation read, in token trees (Eof not counted).
MaxTokens == 11
MaxClauses == 4

Blocks == {"{}", "{;}"}
Operands == {"id"} \cup Blocks
Tokens == Operands \cup {">", "=>", ",", "_"}
Eof == "Eof"

\* The unit value ().
Unit == [type |-> "unit", of |-> 0]
\* No value (yet).
None == [type |-> "none", of |-> 0]

VARIABLES
    input,      \* the token trees read so far (the rejected one and Eof included)
    cur_mps,    \* the matcher positions waiting for the next token
    nt,         \* the expression being parsed for a metavariable
    matches,    \* the bindings: per metavariable, the expressions bound, in order
    outcome,    \* "matching", "success", "failure" (no rule matches), "error" (an
                \* expression does not parse, or the match is ambiguous)
    expansion,  \* the transcribed match expression (meaningful once phase # "parse")
    env,        \* what each expression evaluates to at the point of use
    arm,        \* the arm of the match expression under evaluation
    phase,      \* "parse", "expanded", "guard", "body", "done", "aborted"
    trace,      \* the expressions evaluated so far, in order
    result      \* the value of the cond! expression, None until done

vars == <<input, cur_mps, nt, matches, outcome, expansion, env, arm, phase, trace, result>>

(***************************************************************************)
(* The matcher of the rule, as the locations the macro_rules matcher walks. *)
(***************************************************************************)
Tok(t) == [kind |-> "Token", tok |-> t]
MetaVarDecl(name) == [kind |-> "MetaVarDecl", bind |-> name]
Sequence(kleene, idx_first_after) == [kind |-> "Sequence", op |-> kleene, after |-> idx_first_after]
SequenceSep(t) == [kind |-> "SequenceSep", tok |-> t]
SequenceKleeneOpAfterSep(idx_first) == [kind |-> "SequenceKleeneOpAfterSep", first |-> idx_first]
SequenceKleeneOpNoSep(kleene, idx_first) == [kind |-> "SequenceKleeneOpNoSep", op |-> kleene, first |-> idx_first]
EofLoc == [kind |-> "Eof"]

\* Mutant: the clause repetition written without its separator, $( ... )*
LocsNoSeparator ==
    << Sequence("*", 6), MetaVarDecl("condition"), Tok("=>"), MetaVarDecl("value"),
       SequenceKleeneOpNoSep("*", 2),
       Sequence("?", 12), Tok(","), Tok("_"), Tok("=>"), MetaVarDecl("default"),
       SequenceKleeneOpNoSep("?", 7),
       Sequence("?", 15), Tok(","), SequenceKleeneOpNoSep("?", 14),
       EofLoc >>

\* Mutant: the default group repeated, $(, _ => $default:expr)*
LocsManyDefaults ==
    << Sequence("*", 7), MetaVarDecl("condition"), Tok("=>"), MetaVarDecl("value"),
       SequenceSep(","), SequenceKleeneOpAfterSep(2),
       Sequence("*", 13), Tok(","), Tok("_"), Tok("=>"), MetaVarDecl("default"),
       SequenceKleeneOpNoSep("*", 8),
       Sequence("?", 16), Tok(","), SequenceKleeneOpNoSep("?", 14),
       EofLoc >>

\* $($condition:expr => $value:expr),* $(, _ => $default:expr)? $(,)?
Locs ==
    << Sequence("*", 7), MetaVarDecl("condition"), Tok("=>"), MetaVarDecl("value"),
       SequenceSep(","), SequenceKleeneOpAfterSep(2),
       Sequence("?", 13), Tok(","), Tok("_"), Tok("=>"), MetaVarDecl("default"),
       SequenceKleeneOpNoSep("?", 8),
       Sequence("?", 16), Tok(","), SequenceKleeneOpNoSep("?", 14),
       EofLoc >>

\* Whether an `expr` fragment may begin with the token.  `>` does not begin
\* one, and neither does `_`: the second invocation of the crate's test, `<condition> => true,
\* _ => false`, has a single parse only because it does not.
MayBeginExpr(t) == t \in Operands

Pop(s) == SubSeq(s, 1, Len(s) - 1)
Top(s) == s[Len(s)]

(***************************************************************************)
(* One pass of the matcher over the waiting positions with the current      *)
(* token: positions that take the token go to next, positions at a          *)
(* metavariable that the token may begin go to bb, positions at the end     *)
(* are counted in eof when the token is Eof.                                *)
(***************************************************************************)
RECURSIVE parse_tt_inner(_, _, _, _, _)
parse_tt_inner(cur, next, bb, eof, t) ==
    IF cur = <<>> THEN [next |-> next, bb |-> bb, eof |-> eof]
    ELSE LET idx == Top(cur)
             rest == Pop(cur)
             loc == Locs[idx]
         IN CASE loc.kind = "Token" ->
                    parse_tt_inner(rest, IF t = loc.tok THEN Append(next, idx + 1) ELSE next, bb, eof, t)
              [] loc.kind = "Sequence" ->
                    \* zero repetitions (both `*` and `?` allow it), or enter the body
                    parse_tt_inner(rest \o (IF loc.op \in {"*", "?"} THEN <<loc.after>> ELSE <<>>)
                                        \o <<idx + 1>>, next, bb, eof, t)
              [] loc.kind = "SequenceKleeneOpNoSep" ->
                    \* end the repetition, or (unless `?`) start another one
                    parse_tt_inner(rest \o <<idx + 1>>
                                        \o (IF loc.op # "?" THEN <<loc.first>> ELSE <<>>), next, bb, eof, t)
              [] loc.kind = "SequenceSep" ->
                    \* end the repetition, or take the separator
                    parse_tt_inner(rest \o <<idx + 2>>,
                                   IF t = loc.tok THEN Append(next, idx + 1) ELSE next, bb, eof, t)
              [] loc.kind = "SequenceKleeneOpAfterSep" ->
                    parse_tt_inner(rest \o <<loc.first>>, next, bb, eof, t)
              [] loc.kind = "MetaVarDecl" ->
                    parse_tt_inner(rest, next, IF MayBeginExpr(t) THEN Append(bb, idx) ELSE bb, eof, t)
              [] loc.kind = "Eof" ->
                    parse_tt_inner(rest, next, bb, IF t = Eof THEN eof + 1 ELSE eof, t)

Idle == [st |-> "idle", mp |-> 0, start |-> 0, wild |-> FALSE]

(***************************************************************************)
(* The matcher's decision on one token: success or failure at Eof, failure  *)
(* when nothing takes the token, the next token when some position took     *)
(* it, the expression parser when exactly one position waits at a           *)
(* metavariable, and an ambiguity error otherwise.  `at` is the token's     *)
(* place in the invocation.                                                 *)
(***************************************************************************)
parse_tt(cur, t, at) ==
    LET r == parse_tt_inner(cur, <<>>, <<>>, 0, t)
    IN  IF r.eof = 1 THEN [outcome |-> "success", cur |-> <<>>, nt |-> Idle]
        ELSE IF r.eof > 1 THEN [outcome |-> "error", cur |-> <<>>, nt |-> Idle]
        ELSE IF t = Eof THEN [outcome |-> "failure", cur |-> <<>>, nt |-> Idle]
        ELSE IF r.next = <<>> /\ r.bb = <<>> THEN [outcome |-> "failure", cur |-> <<>>, nt |-> Idle]
        ELSE IF r.bb = <<>> THEN [outcome |-> "matching", cur |-> r.next, nt |-> Idle]
        ELSE IF r.next = <<>> /\ Len(r.bb) = 1
             THEN [outcome |-> "matching", cur |-> <<>>,
                   nt |-> [st |-> IF t = "id" THEN "path" ELSE "block",
                           mp |-> r.bb[1], start |-> at, wild |-> FALSE]]
        ELSE [outcome |-> "error", cur |-> <<>>, nt |-> Idle]

NoMatches == [condition |-> <<>>, value |-> <<>>, default |-> <<>>]

\* The binding pushed when the expression for the metavariable at mp ends:
\* the expression, by the place of its first token, with its form.
Bind(m, mp, expr) == [m EXCEPT ![Locs[mp].bind] = Append(@, expr)]

(***************************************************************************)
(* The parser of an `expr` fragment, one token at a time.  The state says   *)
(* what has been read: "path" `id`, "block" `{}`, "struct" `id {}`,         *)
(* "operator" `primary >`, "binary_path" `primary > id`, "binary"           *)
(* `primary > primary` complete.  A path followed by a brace group is a     *)
(* struct literal (an `expr` fragment is parsed with struct literals        *)
(* allowed), and a parser error when the group is no field list.  The       *)
(* expression ends at the first token that does not continue it, and that   *)
(* token goes to the matcher.                                               *)
(***************************************************************************)
parse_nonterminal(n, t) ==
    CASE n.st = "path" /\ t = "{}" -> [n EXCEPT !.st = "struct"]
      \* the group after a path is read as a field list, which it is not
      [] n.st \in {"path", "binary_path"} /\ t = "{;}" -> [n EXCEPT !.st = "error"]
      [] n.st \in {"path", "block", "struct"} /\ t = ">" -> [n EXCEPT !.st = "operator"]
      [] n.st = "path" /\ t \notin Blocks \cup {">"} -> [n EXCEPT !.st = "end"]
      [] n.st \in {"block", "struct"} /\ t # ">" -> [n EXCEPT !.st = "end"]
      [] n.st = "operator" /\ t = "id" -> [n EXCEPT !.st = "binary_path"]
      [] n.st = "operator" /\ t \in Blocks -> [n EXCEPT !.st = "binary"]
      \* `_` is taken as an operand here
      [] n.st = "operator" /\ t = "_" -> [n EXCEPT !.st = "binary", !.wild = TRUE]
      [] n.st = "operator" /\ t \notin Operands \cup {"_"} -> [n EXCEPT !.st = "error"]
      [] n.st = "binary_path" /\ t = "{}" -> [n EXCEPT !.st = "binary"]
      \* comparison operators cannot be chained
      [] n.st \in {"binary_path", "binary"} /\ t = ">" -> [n EXCEPT !.st = "error"]
      [] n.st = "binary_path" /\ t \notin Blocks \cup {">"} -> [n EXCEPT !.st = "end"]
      [] n.st = "binary" /\ t # ">" -> [n EXCEPT !.st = "end"]

\* The expression the parser had read when it met the token that ends it:
\* form "path", "block", "struct" or "cmp" (a comparison, of type bool).
ParsedExpr(old) ==
    [start |-> old.start,
     form |-> IF old.st \in {"binary_path", "binary"} THEN "cmp" ELSE old.st,
     wild |-> old.wild]

\* Mutant: the arms are emitted in the reverse of the order written.
TranscribeReversed(m) ==
    LET n == Len(m.condition)
    IN  [arms |-> [i \in 1..n |-> [guard |-> m.condition[n + 1 - i], body |-> m.value[n + 1 - i]]],
         fallback |-> m.default]

\* Mutant: the arms are emitted in a canonical order (by the place of the
\* condition's text), not in the order written.
TranscribeSorted(m) ==
    LET n == Len(m.condition)
        rank(i) == Cardinality({j \in 1..n : m.condition[j].start < m.condition[i].start}) + 1
        at(r) == CHOOSE i \in 1..n : rank(i) = r
    IN  [arms |-> [r \in 1..n |-> [guard |-> m.condition[at(r)], body |-> m.value[at(r)]]],
         fallback |-> m.default]

\* match () { $(() if $condition => $value,)* () => ($($default)?), }
Transcribe(m) ==
    [arms |-> [i \in 1..Len(m.condition) |-> [guard |-> m.condition[i], body |-> m.value[i]]],
     fallback |-> m.default]

Range(s) == {s[i] : i \in 1..Len(s)}

Guards(e) == {e.arms[i].guard : i \in 1..Len(e.arms)}
Results(e) == {e.arms[i].body : i \in 1..Len(e.arms)} \cup Range(e.fallback)

(***************************************************************************)
(* Whether the expanded match expression compiles.  `_` is no expression.   *)
(* `() if $condition`: a guard is of type bool, which a struct literal is   *)
(* not.  The arms have one type: without a default the last arm is          *)
(* `() => ()`, so every result is of type (), which neither a comparison    *)
(* (bool) nor a struct literal is; with a default, a comparison and a       *)
(* struct literal cannot both be results.                                   *)
(***************************************************************************)
Compiles(e) ==
    /\ \A x \in Guards(e) \cup Results(e) : ~x.wild
    /\ \A g \in Guards(e) : g.form # "struct"
    /\ IF e.fallback = <<>>
       THEN \A b \in Results(e) : b.form \in {"path", "block"}
       ELSE ~\E b, c \in Results(e) : b.form = "cmp" /\ c.form = "struct"

\* The environments an expansion can be evaluated in: a truth value for each
\* condition.
Environments(e) == [truth : [Guards(e) -> BOOLEAN]]

\* What a result expression of the expansion evaluates to: () when there is
\* no default (the arms are then of type ()), else a value of its own, told
\* from the values of the other results by the expression's place.
ResultValue(e, b) ==
    IF e.fallback = <<>> THEN Unit ELSE [type |-> "value", of |-> b.start]

\* Before the rule has matched there is no expansion.
NoExpansion == [arms |-> <<>>, fallback |-> <<>>]

NoEnv == [truth |-> <<>>]

Init ==
    /\ input = <<>>
    /\ cur_mps = <<1>>
    /\ nt = Idle
    /\ matches = NoMatches
    /\ outcome = "matching"
    /\ expansion = NoExpansion
    /\ env = NoEnv
    /\ arm = 0
    /\ phase = "parse"
    /\ trace = <<>>
    /\ result = None

(***************************************************************************)
(* The invocations the crate itself writes, as token trees.  Their operands *)
(* that are no paths (literals, calls, macro calls) are written "id": none  *)
(* of them is followed by a brace group.  `<` stands between two operands   *)
(* in each of them.                                                         *)
(***************************************************************************)
CrateInvocations ==
    { \* the doc example without a default
      <<"id", ">", "id", "=>", "id", ",", "id", ">", "id", "=>", "id", ",">>,
      \* the doc example with a default
      <<"id", ">", "id", "=>", "id", ",", "id", ">", "id", "=>", "id", ",", "_", "=>", "id", ",">>,
      \* the doc example that fails to compile
      <<"id", ">", "id", "=>", "{;}", "id", ">", "id", "=>", "{;}">>,
      \* the test's first invocation
      <<"id", ">", "id", "=>", "id", ",", "id", "=>", "{;}", ",", "id", "=>", "id", ",">>,
      \* the test's second invocation
      <<"id", ">", "id", "=>", "id", ",", "_", "=>", "id">> }

\* A list of k clauses `id => id`, with or without a default clause and a
\* trailing comma.
RECURSIVE ClauseList(_, _, _)
ClauseList(k, default, comma) ==
    IF k > 0
    THEN <<"id", "=>", "id">> \o (IF k > 1 \/ default \/ comma THEN <<",">> ELSE <<>>)
             \o ClauseList(k - 1, default, comma)
    ELSE IF default THEN <<"_", "=>", "id">> \o (IF comma THEN <<",">> ELSE <<>>)
    ELSE <<>>
ListInvocations == { ClauseList(k, d, c) : k \in 1..MaxClauses, d \in BOOLEAN, c \in BOOLEAN }

IsPrefix(s, d) == Len(s) <= Len(d) /\ SubSeq(d, 1, Len(s)) = s

\* The invocations read: every one of at most MaxTokens token trees, and of
\* the longer ones the crate's own and the lists of up to MaxClauses clauses.
Readable(s) ==
    \/ Len(s) <= MaxTokens
    \/ \E d \in CrateInvocations \cup ListInvocations : IsPrefix(s, d)

(***************************************************************************)
(* The macro reads the next token tree of its invocation.                   *)
(***************************************************************************)
ReadToken(t) ==
    /\ outcome = "matching"
    /\ t # Eof => Readable(Append(input, t))
    /\ input' = Append(input, t)
    /\ LET at == Len(input) + 1
           n == IF nt.st = "idle" THEN nt ELSE parse_nonterminal(nt, t)
           m == IF n.st = "end" THEN Bind(matches, n.mp, ParsedExpr(nt)) ELSE matches
           r == CASE n.st = "idle" -> parse_tt(cur_mps, t, at)
                  [] n.st = "end" -> parse_tt(<<n.mp + 1>>, t, at)
                  [] n.st = "error" -> [outcome |-> "error", cur |-> <<>>, nt |-> Idle]
                  [] OTHER -> [outcome |-> "matching", cur |-> <<>>, nt |-> n]
       IN  /\ matches' = m
           /\ cur_mps' = r.cur
           /\ nt' = r.nt
           /\ outcome' = r.outcome
           /\ expansion' = IF r.outcome = "success" THEN Transcribe(m) ELSE NoExpansion
           /\ phase' = IF r.outcome = "success" THEN "expanded" ELSE "parse"
    /\ UNCHANGED <<env, arm, trace, result>>

(***************************************************************************)
(* The expansion compiles and control reaches it: the environment fixes     *)
(* what each of its expressions evaluates to when it returns.               *)
(***************************************************************************)
Invoke(e) ==
    /\ phase = "expanded"
    /\ Compiles(expansion)
    /\ e \in Environments(expansion)
    /\ env' = e
    /\ arm' = 1
    /\ phase' = "guard"
    /\ UNCHANGED <<input, cur_mps, nt, matches, outcome, expansion, trace, result>>

\* Mutant: the guards are ignored and the first arm is taken.
GuardTakenAlways(truth) == TRUE

\* Mutant: a guard that holds does not stop the search for an arm.
GuardTakenNever(truth) == FALSE

\* Whether the arm `() if guard => body` is taken.
GuardTaken(truth) == truth

Event(kind, expr, truth, returns) == [kind |-> kind, expr |-> expr, truth |-> truth, ret |-> returns]

\* () if $condition => ...: the guard of the current arm is evaluated.  When
\* it does not return (it panics, say) the evaluation ends there, no value.
EvalGuard(returns) ==
    /\ phase = "guard"
    /\ arm <= Len(expansion.arms)
    /\ LET g == expansion.arms[arm].guard
       IN  IF returns
           THEN /\ trace' = Append(trace, Event("cond", g, env.truth[g], TRUE))
                /\ IF GuardTaken(env.truth[g])
                   THEN phase' = "body" /\ arm' = arm
                   ELSE phase' = "guard" /\ arm' = arm + 1
           ELSE /\ trace' = Append(trace, Event("cond", g, FALSE, FALSE))
                /\ phase' = "aborted" /\ arm' = arm
    /\ UNCHANGED <<input, cur_mps, nt, matches, outcome, expansion, env, result>>

\* ... => $value: the body of the arm whose guard held is evaluated.
EvalBody(returns) ==
    /\ phase = "body"
    /\ LET b == expansion.arms[arm].body
       IN  /\ trace' = Append(trace, Event("value", b, FALSE, returns))
           /\ result' = IF returns THEN ResultValue(expansion, b) ELSE result
    /\ phase' = IF returns THEN "done" ELSE "aborted"
    /\ UNCHANGED <<input, cur_mps, nt, matches, outcome, expansion, env, arm>>

\* () => ($($default)?): no guard held; the default's result, or ().
EvalFallback(returns) ==
    /\ phase = "guard"
    /\ arm = Len(expansion.arms) + 1
    /\ IF expansion.fallback # <<>>
       THEN /\ trace' = Append(trace, Event("value", expansion.fallback[1], FALSE, returns))
            /\ result' = IF returns THEN ResultValue(expansion, expansion.fallback[1]) ELSE result
            /\ phase' = IF returns THEN "done" ELSE "aborted"
       ELSE /\ returns
            /\ trace' = trace
            /\ result' = Unit
            /\ phase' = "done"
    /\ UNCHANGED <<input, cur_mps, nt, matches, outcome, expansion, env, arm>>

\* The value of the expanded match expression in an environment: the body of
\* the first arm whose guard holds, else the last arm.
CondValue(e, v) ==
    LET taken == {i \in 1..Len(e.arms) : GuardTaken(v.truth[e.arms[i].guard])}
        first == CHOOSE i \in taken : \A j \in taken : i <= j
    IN  IF taken # {} THEN ResultValue(e, e.arms[first].body)
        ELSE IF e.fallback # <<>> THEN ResultValue(e, e.fallback[1])
        ELSE Unit

Next ==
    \/ \E t \in Tokens \cup {Eof} : ReadToken(t)
    \/ \E e \in (IF phase = "expanded" /\ Compiles(expansion) THEN Environments(expansion) ELSE {}) : Invoke(e)
    \/ \E returns \in BOOLEAN : EvalGuard(returns)
    \/ \E returns \in BOOLEAN : EvalBody(returns)
    \/ \E returns \in BOOLEAN : EvalFallback(returns)

Spec == Init /\ [][Next]_vars

(***************************************************************************)
(* The invocation as written: its clauses in source order.                  *)
(***************************************************************************)
\* The macro has produced its expansion.
Expanded == phase # "parse"
NumClauses == Len(matches.condition)
Clauses == 1..NumClauses
HasDefault == matches.default # <<>>
Holds(k) == env.truth[matches.condition[k]]
\* The value result k has when evaluated; that of the default's result.
ValueOf(k) == IF HasDefault THEN [type |-> "value", of |-> matches.value[k].start] ELSE Unit
DefaultValue == [type |-> "value", of |-> matches.default[1].start]
\* The first clause whose condition holds, 0 when none does.
FirstTrue ==
    IF \E k \in Clauses : Holds(k)
    THEN CHOOSE k \in Clauses : Holds(k) /\ \A h \in 1..(k - 1) : ~Holds(h)
    ELSE 0
Done == phase = "done"
Evaluated(kind, expr) == \E p \in 1..Len(trace) : trace[p].kind = kind /\ trace[p].expr = expr
ValueEvents == {p \in 1..Len(trace) : trace[p].kind = "value"}

\* The step-by-step evaluation and CondValue agree on the value.
EvaluationIsCondValue == Done => result = CondValue(expansion, env)

\* C1: when clause k is the first whose condition is true, the value of
\* cond! is the value of result k, whatever the later conditions are.
C1_FirstMatchWins ==
    (Done /\ FirstTrue # 0) =>
        /\ result = ValueOf(FirstTrue)
        /\ Evaluated("value", matches.value[FirstTrue])

\* a run with a default where the first clause is chosen although the second
\* holds too
C1_Witness ==
    /\ Done /\ NumClauses = 2 /\ HasDefault
    /\ FirstTrue = 1 /\ Holds(2)
    /\ result = ValueOf(1) /\ result # ValueOf(2) /\ result # DefaultValue

\* a run without a default where the second of three clauses is chosen
\* although the third holds too
C1_SecondOfThreeReached ==
    /\ Done /\ NumClauses = 3 /\ FirstTrue = 2 /\ Holds(3)
    /\ Evaluated("value", matches.value[2]) /\ ~Evaluated("value", matches.value[3])

\* C2: once the condition of clause k has evaluated to true, no condition
\* and no result of a later clause, and not the default's result, is ever
\* evaluated in that evaluation.
C2_ShortCircuit ==
    \A p \in 1..Len(trace) : \A k \in Clauses :
        (trace[p].kind = "cond" /\ trace[p].expr = matches.condition[k] /\ trace[p].truth) =>
            /\ \A j \in Clauses : j > k =>
                  /\ ~Evaluated("cond", matches.condition[j])
                  /\ ~Evaluated("value", matches.value[j])
            /\ HasDefault => ~Evaluated("value", matches.default[1])

\* clause 1 false, clause 2 true and chosen, clause 3 (which would hold) untouched
C2_Witness ==
    /\ Done /\ NumClauses = 3
    /\ ~Holds(1) /\ Holds(2) /\ Holds(3)
    /\ Len(trace) = 3
    /\ ~Evaluated("cond", matches.condition[3])

\* four clauses: the third is chosen, the fourth (which would hold) untouched
C2_FourClausesReached ==
    /\ Done /\ NumClauses = 4 /\ HasDefault
    /\ ~Holds(1) /\ ~Holds(2) /\ Holds(3) /\ Holds(4)
    /\ Len(trace) = 4
    /\ ~Evaluated("cond", matches.condition[4])

\* C3: conditions are evaluated in the order written, condition i only after
\* conditions 1..i-1 have each been evaluated and found false, each at most
\* once.
C3_EvaluationOrder ==
    /\ \A p \in 1..Len(trace) : trace[p].kind = "cond" =>
          /\ p <= NumClauses
          /\ trace[p].expr = matches.condition[p]
          /\ \A q \in 1..(p - 1) : trace[q].kind = "cond" /\ trace[q].ret /\ ~trace[q].truth
    /\ \A p, q \in 1..Len(trace) :
          (trace[p].kind = "cond" /\ trace[q].kind = "cond" /\ trace[p].expr = trace[q].expr) => p = q

\* three conditions evaluated, the third after two that were false
C3_Witness ==
    /\ NumClauses = 3
    /\ Len(trace) >= 3
    /\ trace[3].kind = "cond" /\ trace[3].expr = matches.condition[3]
    /\ ~trace[1].truth /\ ~trace[2].truth

\* C4: with a default and every condition false, the value of cond! is the
\* default's result; the default's result is evaluated only after all the
\* conditions have been evaluated and found false.
C4_DefaultFallback ==
    /\ (Done /\ HasDefault /\ FirstTrue = 0) => result = DefaultValue
    /\ \A p \in 1..Len(trace) :
          (HasDefault /\ trace[p].kind = "value" /\ trace[p].expr = matches.default[1]) =>
              /\ p = NumClauses + 1
              /\ \A k \in Clauses :
                    trace[k] = Event("cond", matches.condition[k], FALSE, TRUE)

\* two false conditions, then the default, whose value differs from both results
C4_Witness ==
    /\ Done /\ NumClauses = 2 /\ HasDefault /\ FirstTrue = 0
    /\ Evaluated("value", matches.default[1])
    /\ result # ValueOf(1) /\ result # ValueOf(2)

\* the example of the crate's documentation (two comparisons, a default, a
\* trailing comma), every condition false
C4_DocExampleReached ==
    /\ Done /\ Len(input) = 17 /\ input[2] = ">" /\ input[16] = ","
    /\ HasDefault /\ FirstTrue = 0 /\ result = DefaultValue

\* C5: without a default and with every condition false (zero clauses
\* included), cond! is the unit value and no result expression is evaluated.
C5_NoDefaultUnit ==
    (Done /\ ~HasDefault /\ FirstTrue = 0) => (result = Unit /\ ValueEvents = {})

\* two clauses, no default, both conditions evaluated and false
C5_Witness ==
    /\ Done /\ NumClauses = 2 /\ ~HasDefault /\ FirstTrue = 0
    /\ Len(trace) = 2 /\ result = Unit

\* the empty invocation cond! {} evaluates to unit
C5_EmptyReached == Done /\ input = <<Eof>> /\ result = Unit

(***************************************************************************)
(* The shape of a clause list as the contract states it: zero or more       *)
(* conditional clauses, then optionally one default clause, a comma         *)
(* between adjacent clauses, an optional comma after the last clause.       *)
(***************************************************************************)
\* An expression as the contract's reader writes it, token by token: "path"
\* `id`, "prim" `{}` or `id {}`, "op" `primary >`, "bin_path" `primary > id`,
\* "bin" `primary > primary`; "none" when the token does not continue it.
ExprBegin(t) == IF t = "id" THEN "path" ELSE "prim"
ExprCont(est, t) ==
    CASE est = "path" /\ t = "{}" -> "prim"
      [] est \in {"path", "prim"} /\ t = ">" -> "op"
      [] est = "op" /\ t = "id" -> "bin_path"
      [] est = "op" /\ t \in Blocks -> "bin"
      [] est = "bin_path" /\ t = "{}" -> "bin"
      [] OTHER -> "none"
Complete(est) == est \in {"path", "prim", "bin_path", "bin"}

Accept == <<"accept", "-">>
Dead == <<"dead", "-">>

ShapeStep(q, t) ==
    LET c == q[1]
        e == q[2]
    IN  CASE c \in {"start", "comma"} /\ t \in Operands -> <<"cond", ExprBegin(t)>>
          [] c \in {"start", "comma"} /\ t = "_" -> <<"dflt", "-">>
          [] c \in {"start", "comma"} /\ t = Eof -> Accept
          [] c \in {"cond", "val", "dval"} /\ ExprCont(e, t) # "none" -> <<c, ExprCont(e, t)>>
          [] c = "cond" /\ Complete(e) /\ t = "=>" -> <<"arrow", "-">>
          [] c = "arrow" /\ t \in Operands -> <<"val", ExprBegin(t)>>
          [] c = "val" /\ Complete(e) /\ t = "," -> <<"comma", "-">>
          [] c \in {"val", "dval"} /\ Complete(e) /\ t = Eof -> Accept
          [] c = "dflt" /\ t = "=>" -> <<"dflt_arrow", "-">>
          [] c = "dflt_arrow" /\ t \in Operands -> <<"dval", ExprBegin(t)>>
          [] c = "dval" /\ Complete(e) /\ t = "," -> <<"last_comma", "-">>
          [] c = "last_comma" /\ t = Eof -> Accept
          [] OTHER -> Dead

RECURSIVE ShapeOf(_)
ShapeOf(s) == IF s = <<>> THEN <<"start", "-">> ELSE ShapeStep(ShapeOf(Pop(s)), Top(s))

\* C6: every clause list of the stated shape is accepted by the macro
\* pattern and expanded, a default clause alone included.
C6_AcceptedShape ==
    /\ ShapeOf(input) # Dead => outcome \in {"matching", "success"}
    /\ ShapeOf(input) = Accept => (outcome = "success" /\ Expanded)

\* C6, the part the pattern does implement: a list of the stated shape with at
\* least one conditional clause is accepted.
C6_AcceptedWithClause ==
    (ShapeOf(input) = Accept /\ \E i \in 1..Len(input) : input[i] \in Operands /\ (i = 1 \/ input[i - 1] = ","))
        => (outcome = "success" /\ Expanded)

\* `_` where a clause begins: the marker of a default clause.
IsDefaultMarker(s, i) == s[i] = "_" /\ (i = 1 \/ s[i - 1] = ",")
\* more than one default clause
TwoDefaults(s) == Cardinality({i \in 1..Len(s) : IsDefaultMarker(s, i)}) > 1
\* a conditional clause begins after a default clause
ClauseAfterDefault(s) ==
    \E j \in 2..(Len(s) - 1) :
        /\ s[j] = "," /\ s[j + 1] \in Operands
        /\ \E i \in 1..(j - 1) : IsDefaultMarker(s, i)
\* `=>` with no result after it
MissingResult(s) == \E i \in 1..(Len(s) - 1) : s[i] = "=>" /\ s[i + 1] \in {",", Eof}

\* C7: a clause list with more than one default, with a conditional clause
\* after the default, or with a condition that has no result, matches no
\* rule and produces no expansion.  (Stated by contraposition: an invocation
\* that the matcher has not failed on has none of the three.)
C7_ShapeErrorsRejected ==
    ~(outcome = "failure" /\ ~Expanded)
        => ~(TwoDefaults(input) \/ ClauseAfterDefault(input) \/ MissingResult(input))

\* a second default after a complete first one is rejected
C7_Witness ==
    /\ outcome = "failure"
    /\ TwoDefaults(input)
    /\ \E i \in 1..Len(input) : IsDefaultMarker(input, i) /\ i + 3 < Len(input) /\ input[i + 3] = ","
    /\ matches.default # <<>>

\* a conditional clause after the default is rejected
C7_ClauseAfterDefaultReached == outcome = "failure" /\ ClauseAfterDefault(input) /\ matches.default # <<>>

\* a condition without a result is rejected
C7_MissingResultReached == outcome = "failure" /\ MissingResult(input) /\ Len(matches.condition) = 2

\* What the tokens i..j are as an expression ("none" when they are none).
RECURSIVE ExprState(_, _, _)
ExprState(s, i, j) ==
    IF j = i THEN (IF s[i] \in Operands THEN ExprBegin(s[i]) ELSE "none")
    ELSE LET before == ExprState(s, i, j - 1)
         IN  IF before = "none" THEN "none" ELSE ExprCont(before, s[j])
\* The tokens i..j are the result of a clause: a whole expression after `=>`
\* that the next token does not continue.
IsResult(s, i, j) ==
    /\ 1 < i /\ i <= j /\ j < Len(s)
    /\ s[i - 1] = "=>"
    /\ Complete(ExprState(s, i, j))
    /\ ExprCont(ExprState(s, i, j), s[j + 1]) = "none"
\* A result is followed at once by the beginning of another clause.
MissingSeparator(s) ==
    \E i \in 2..Len(s) :
        /\ s[i - 1] = "=>"
        /\ \E j \in i..(Len(s) - 1) : s[j + 1] \in Operands \cup {"_"} /\ IsResult(s, i, j)
\* The same, the case left out where the result ends in a path and the next
\* clause begins with a block of statements: the expression parser then
\* reads the block as the field list of a struct literal and reports the error.
MissingSeparatorForMatcher(s) ==
    \E i \in 2..Len(s) :
        /\ s[i - 1] = "=>"
        /\ \E j \in i..(Len(s) - 1) :
              /\ s[j + 1] \in Operands \cup {"_"}
              /\ IsResult(s, i, j)
              /\ ~(s[j] = "id" /\ s[j + 1] = "{;}")
BlockThenClause(s) ==
    \E i \in 2..(Len(s) - 1) : IsResult(s, i, i) /\ s[i] = "{;}" /\ s[i + 1] \in Operands \cup {"_"}
\* Two clauses with no comma anywhere between their `=>`.
AdjacentArrows(s) ==
    \E i \in 1..Len(s) :
        /\ s[i] = "=>"
        /\ \E j \in (i + 1)..Len(s) : s[j] = "=>" /\ \A k \in (i + 1)..(j - 1) : s[k] # ","

\* C8: a clause list in which two adjacent clauses are not separated by a
\* comma is rejected, also when the first clause's result is a block: the
\* matcher fails at the token that begins the second clause, or, when that
\* token continues the result (`id {}`), at the second clause's `=>`.
\* (Stated by contraposition.)
C8_SeparatorMandatory ==
    /\ ~(outcome = "failure" /\ ~Expanded) => ~MissingSeparatorForMatcher(input)
    /\ ~(outcome \in {"failure", "error"} /\ ~Expanded)
          => (~MissingSeparator(input) /\ ~AdjacentArrows(input))

\* the caveat's example: `cond => { } cond ...` is rejected at the second clause
C8_Witness ==
    /\ outcome = "failure"
    /\ BlockThenClause(input)
    /\ input[Len(input)] \in Operands
    /\ matches.value # <<>>

\* `c => id {} => v`: the brace group continues the result, the `=>` is rejected
C8_StructLiteralReached ==
    /\ outcome = "failure"
    /\ AdjacentArrows(input) /\ ~MissingSeparator(input)
    /\ Len(matches.value) = 1 /\ matches.value[1].form = "struct"

\* `c => id { f(); } => v`: the result ends in a path and a block of statements
\* follows; the expression parser reports the error
C8_PathThenBlockReached ==
    /\ outcome = "error"
    /\ MissingSeparator(input) /\ ~MissingSeparatorForMatcher(input)

\* the caveat's example of the crate's documentation, as written there
C8_CaveatExampleReached ==
    /\ outcome = "failure"
    /\ input = <<"id", ">", "id", "=>", "{;}", "id">>

\* The bindings of the invocation with clauses i and j exchanged.
SwapClauses(m, i, j) ==
    [m EXCEPT !.condition = [@ EXCEPT ![i] = m.condition[j], ![j] = m.condition[i]],
              !.value = [@ EXCEPT ![i] = m.value[j], ![j] = m.value[i]]]

\* C9: exchanging two clauses with distinct results whose conditions both
\* hold, every condition before them being false, changes the result: each
\* list returns the result of whichever of the two is written first.
C9_OrderingSensitivity ==
    Done =>
        \A i, j \in Clauses :
            (i < j /\ Holds(i) /\ Holds(j) /\ ValueOf(i) # ValueOf(j) /\ \A h \in 1..(i - 1) : ~Holds(h)) =>
                LET swapped == CondValue(Transcribe(SwapClauses(matches, i, j)), env)
                IN  /\ result = ValueOf(i)
                    /\ swapped = ValueOf(j)
                    /\ swapped # result

\* two clauses that both hold, with different results, and a default
C9_Witness ==
    /\ Done /\ NumClauses = 2 /\ HasDefault
    /\ Holds(1) /\ Holds(2) /\ ValueOf(1) # ValueOf(2)
    /\ CondValue(Transcribe(SwapClauses(matches, 1, 2)), env) = ValueOf(2)
    /\ result = ValueOf(1)

\* C10: at most one result expression is evaluated, once, and only that of
\* the selected clause (never that of a clause whose condition was false);
\* the conditions evaluated are those up to and including the first true one.
C10_ResultOnlyWhenSelected ==
    /\ Cardinality(ValueEvents) <= 1
    /\ \A p \in ValueEvents :
          \/ HasDefault /\ trace[p].expr = matches.default[1] /\ \A k \in Clauses : ~Holds(k)
          \/ \E k \in Clauses :
                /\ trace[p].expr = matches.value[k]
                /\ p > 1 /\ trace[p - 1] = Event("cond", matches.condition[k], TRUE, TRUE)
                /\ Holds(k)
    /\ \A k \in Clauses :
          (phase # "parse" /\ phase # "expanded" /\ ~Holds(k)) => ~Evaluated("value", matches.value[k])
    /\ Done =>
          /\ {trace[p].expr : p \in 1..Len(trace) \ ValueEvents}
                = {matches.condition[k] : k \in 1..(IF FirstTrue = 0 THEN NumClauses ELSE FirstTrue)}
          /\ (FirstTrue # 0 \/ HasDefault) => Cardinality(ValueEvents) = 1

\* a false first clause whose result stays unevaluated while clause 2 is selected
C10_Witness ==
    /\ Done /\ NumClauses = 2 /\ ~HasDefault
    /\ ~Holds(1) /\ Holds(2)
    /\ Len(trace) = 3 /\ trace[3].expr = matches.value[2]

\* An evaluation ends without a value when an expression does not return; the
\* claims' orderings hold of what was evaluated until then.
C10_AbortedReached ==
    /\ phase = "aborted" /\ result = None
    /\ Len(trace) = 2 /\ trace[1].ret /\ ~trace[2].ret
====
